---- MODULE Spec2Model ----
(***************************************************************************)
(* Model of bot.py: a Telegram-driven deployer that launches uploaded      *)
(* bot programs as child processes, tracks them in the dict `bots`,        *)
(* persists that dict to bots_data.json and relaunches the tracked         *)
(* programs when the deployer itself starts.                               *)
(*                                                                         *)
(* Python values are modelled as tagged records:                           *)
(*   a dict of bots   [t |-> "dict", items |-> <<  <<name, info>>, ... >>] *)
(*   a bot's info     [t |-> "dict", path, pid, log, err]                  *)
(*   other JSON data  [t |-> "none"], [t |-> "list", len |-> n],           *)
(*                    [t |-> "int", v |-> n]                               *)
(* `items` keeps the dict's insertion order, which is the order every loop *)
(* of the program visits the bots in.  A key that is absent from an info   *)
(* dict is modelled by the falsy value of its field (<<>> for a path,      *)
(* 0 for a pid): the program only ever tests these fields for truthiness.  *)
(***************************************************************************)
EXTENDS Integers, Sequences, FiniteSets, TLC

\* ---------------------------------------------------------------- bounds
\* Process ids the operating system hands out: 1..MaxPid.
MaxPid == 2

\* Process ids of the host in GroupSpec: 1..MaxProc.
MaxProc == 3

\* Handler coroutines in flight at once in LoopSpec.
MaxTasks == 2

\* ------------------------------------------------------------- constants
\* bot.py:26, the operator's Telegram user id (any non-zero value).
ADMIN_ID == 7

Users == {ADMIN_ID, ADMIN_ID + 1}

Pids == 1..MaxPid

\* Document file names an operator may upload.
PyFiles == {"a.py", "b.py"}
TxtFiles == {"requirements.txt"}
FileNames == PyFiles \cup TxtFiles

\* A path is modelled as <<directory, file name>>, and an uploaded file's name
\* f"{user}_{filename}" as <<user, filename>>.
PathOf(name) == <<"uploaded_bots", name>>

\* bot.py:210, dest = UPLOAD_DIR / f"{user}_{filename}"
UploadDest(user, filename) == PathOf(<<user, filename>>)

\* bot.py:219, dest = UPLOAD_DIR / f"{user}_requirements.txt"
ReqDest(user) == <<"uploaded_bots", <<user, "requirements.txt">>>>

\* bot.py:263, Path(bot_path).name
PathName(path) == path[2]

\* Names that can be keys of `bots`: those a deploy by the operator creates.
Names == {<<ADMIN_ID, f>> : f \in PyFiles}

\* bot.py:51-52, log_file = LOGS_DIR / f"{bot_name}.log" (and .err)
LogOf(name) == <<"bot_logs", name, "log">>
ErrOf(name) == <<"bot_logs", name, "err">>

NoPath == <<>>
NoPid == 0

\* ------------------------------------------------------- python dict ops
EmptyDict == [t |-> "dict", items |-> <<>>]
PyNone == [t |-> "none"]

IsDict(v) == v.t = "dict"

\* bool(v) of the JSON values load_bots can return.
Truthy(v) ==
    CASE v.t = "dict" -> Len(v.items) > 0
      [] v.t = "list" -> v.len > 0
      [] v.t = "int" -> v.v # 0
      [] OTHER -> FALSE

Keys(d) == {d.items[i][1] : i \in 1..Len(d.items)}

KeySeq(d) == [i \in 1..Len(d.items) |-> d.items[i][1]]

Get(d, n) == LET i == CHOOSE i \in 1..Len(d.items) : d.items[i][1] = n
             IN d.items[i][2]

\* d[n] = v: an existing key keeps its position, a new key is appended.
Put(d, n, v) ==
    IF n \in Keys(d)
    THEN [d EXCEPT !.items =
            [i \in 1..Len(d.items) |->
                IF d.items[i][1] = n THEN <<n, v>> ELSE d.items[i]]]
    ELSE [d EXCEPT !.items = Append(d.items, <<n, v>>)]

\* Faulty variant of Pop: nothing is removed.
PopNothing(d, n) == d

\* d.pop(n, None)
Pop(d, n) == [d EXCEPT !.items = SelectSeq(d.items, LAMBDA it : it[1] # n)]

\* Faulty variant of Clear: nothing is removed.
ClearNothing(d) == d

\* d.clear()
Clear(d) == [d EXCEPT !.items = <<>>]

\* The dict as a function of its keys: what == compares in Python.
AsMap(d) == [n \in Keys(d) |-> Get(d, n)]

\* ------------------------------------------------------------------ JSON
\* A JSON document is modelled by its syntax tree: an object is a sequence
\* of members <<key, value>>.  A file that json.loads rejects (empty,
\* truncated, not JSON) is the document Garbage.
Garbage == [k |-> "garbage"]

JNull == [k |-> "null"]

\* json.dumps of one bot's info; a falsy field is written as no member.
DumpsInfo(info) ==
    IF info.t = "dict"
    THEN [k |-> "object",
          members |->
            (IF info.path # NoPath
               THEN << <<"path", [k |-> "string", s |-> info.path]>> >> ELSE <<>>)
            \o (IF info.pid # NoPid
               THEN << <<"pid", [k |-> "number", n |-> info.pid]>> >> ELSE <<>>)
            \o (IF info.log # NoPath
               THEN << <<"log", [k |-> "string", s |-> info.log]>> >> ELSE <<>>)
            \o (IF info.err # NoPath
               THEN << <<"err", [k |-> "string", s |-> info.err]>> >> ELSE <<>>)]
    ELSE [k |-> "number", n |-> info.v]

\* json.dumps(data, indent=2)
Dumps(v) ==
    CASE v.t = "dict" ->
           [k |-> "object",
            members |-> [i \in 1..Len(v.items) |->
                           <<v.items[i][1], DumpsInfo(v.items[i][2])>>]]
      [] v.t = "list" -> [k |-> "array", len |-> v.len]
      [] v.t = "int" -> [k |-> "number", n |-> v.v]
      [] OTHER -> JNull

Member(obj, key, default) ==
    IF \E i \in 1..Len(obj.members) : obj.members[i][1] = key
    THEN LET i == CHOOSE i \in 1..Len(obj.members) : obj.members[i][1] = key
             m == obj.members[i][2]
         IN IF m.k = "string" THEN m.s ELSE m.n
    ELSE default

LoadsInfo(doc) ==
    IF doc.k = "object"
    THEN [t |-> "dict",
          path |-> Member(doc, "path", NoPath),
          pid |-> Member(doc, "pid", NoPid),
          log |-> Member(doc, "log", NoPath),
          err |-> Member(doc, "err", NoPath)]
    ELSE [t |-> "int", v |-> doc.n]

\* json.loads; defined for every document but Garbage, on which it raises.
Loads(doc) ==
    CASE doc.k = "object" ->
           [t |-> "dict",
            items |-> [i \in 1..Len(doc.members) |->
                         <<doc.members[i][1], LoadsInfo(doc.members[i][2])>>]]
      [] doc.k = "array" -> [t |-> "list", len |-> doc.len]
      [] doc.k = "number" -> [t |-> "int", v |-> doc.n]
      [] OTHER -> PyNone

\* ------------------------------------------------------------------ state
VARIABLES
    bots,        \* bot.py:44, the in-memory registry
    db,          \* the file bots_data.json: absent, or its document
    user_state,  \* bot.py:45, per-user upload session
    live,        \* pids present in the host's process table
    pc,          \* "boot": before auto_restart_bots; "serving"; "crashed"
    last,        \* history: what the last step did
    hist,        \* history: the events of the open upload session
    saving,      \* a call of save_bots, statement by statement
    tailing,     \* a log file and what the log__ branch sends of it
    groups,      \* the host's processes with their process groups
    loop         \* the handler coroutines on the event loop

\* The deployer as a whole, every handler call one step.
whole == <<bots, db, user_state, live, pc, last, hist>>

\* Parts of it taken on their own, in steps of their own (further below).
parts == <<saving, tailing, groups, loop>>

vars == <<whole, parts>>

\* The value of a part that is not looked at.
Off == [on |-> FALSE]

NoFile == [exists |-> FALSE]
FileOf(doc) == [exists |-> TRUE, doc |-> doc]

\* bot.py:32-38
load_bots(file) ==
    IF file.exists
    THEN IF file.doc = Garbage THEN EmptyDict ELSE Loads(file.doc)
    ELSE EmptyDict

\* bot.py:40-41
save_bots(data) == FileOf(Dumps(data))

\* ---------------------------------------------------------- the host's part
\* What the host answers when a step looks for a program file and launches
\* it: the file is not there; or it is there and the launch raises (open() of
\* a log file or Popen() fails), or Popen returns a child with process id
\* `pid`, which is never the id of a process that is in the process table.
\* The files under uploaded_bots/ belong to the host: any of them may be
\* removed or put back between two steps.
NotThere == [there |-> FALSE, ok |-> FALSE, pid |-> NoPid]

HostAnswers(table) ==
    {NotThere, [there |-> TRUE, ok |-> FALSE, pid |-> NoPid]}
    \cup {[there |-> TRUE, ok |-> TRUE, pid |-> p] : p \in Pids \ table}

\* What the host answers to SIGTERM sent to the group of a pid and, when that
\* failed, to the pid itself: a process that is gone cannot be signalled, a
\* process that is there may still refuse (EPERM).
SignalOutcomes ==
    {[group |-> FALSE, single |-> FALSE],
     [group |-> TRUE, single |-> FALSE],
     [group |-> FALSE, single |-> TRUE]}

SignalAnswers(pid, table) ==
    {sig \in SignalOutcomes : (sig.group \/ sig.single) => pid \in table}

\* ------------------------------------------------- Launch/Stop functions
\* bot.py:48-64.  `raised` stands for the exception of open() or Popen().
start_bot_process(bot_path, bot_name, out) ==
    [raised |-> ~out.ok,
     pid    |-> out.pid,
     log    |-> LogOf(bot_name),
     err    |-> ErrOf(bot_name)]

\* bot.py:66-75 without the inner try: the exception of os.kill leaves the
\* function.
stop_bot_process_no_inner_try(pid, sig) ==
    LET group == [to |-> "group", ok |-> sig.group]
        single == [to |-> "single", ok |-> sig.single]
    IN IF group.ok
       THEN [ret |-> TRUE, raised |-> FALSE, calls |-> <<group>>]
       ELSE [ret |-> single.ok, raised |-> ~single.ok,
             calls |-> <<group, single>>]

\* bot.py:66-75.  `calls` are the signals sent, in their order, each with
\* whether it was delivered (the call did not raise); both excepts are bare,
\* no exception leaves the function.
stop_bot_process(pid, sig) ==
    LET group == [to |-> "group", ok |-> sig.group]
        single == [to |-> "single", ok |-> sig.single]
    IN IF group.ok
       THEN [ret |-> TRUE, raised |-> FALSE, calls |-> <<group>>]
       ELSE IF single.ok
       THEN [ret |-> TRUE, raised |-> FALSE, calls |-> <<group, single>>]
       ELSE [ret |-> FALSE, raised |-> FALSE, calls |-> <<group, single>>]

\* ------------------------------------------------------------- history
\* What one step did, for the properties: whether it ran to its end, the
\* result of every launch it made, the bots whose stop failed and those it
\* had no pid for, the replies it sent and, for a deploy, the events of its
\* upload session.  A handler call that changed nothing is a "request".
\* `streak` counts, up to two, the runs of auto_restart_bots that relaunched
\* every bot and had nothing but the restart of the deployer between them.
NoRes == [n \in Names |-> [st |-> "none", pid |-> NoPid]]

Step(op, user) ==
    [op |-> op, user |-> user, done |-> TRUE, res |-> NoRes,
     failedStops |-> {}, noPid |-> {}, replies |-> <<>>, events |-> <<>>,
     streak |-> 0]

Reply(step, msgs) == [step EXCEPT !.replies = @ \o msgs]

Raised(step) == [step EXCEPT !.done = FALSE]

Result(r) ==
    [st |-> IF r.raised THEN "failed" ELSE "ok",
     pid |-> IF r.raised THEN NoPid ELSE r.pid]

Missing == [st |-> "missing", pid |-> NoPid]

\* Faulty variant of Relaunched: the pid is not stored.
RelaunchedSamePid(info, r) == [info EXCEPT !.log = r.log, !.err = r.err]

\* bot.py:88-90 and bot.py:152-154
Relaunched(info, r) == [info EXCEPT !.pid = r.pid, !.log = r.log, !.err = r.err]

\* Faulty variant of TryRelaunch: the info is updated before the launch is
\* known to have succeeded.
RelaunchUnguarded(info, r) ==
    [info EXCEPT !.pid = r.pid, !.log = r.log, !.err = r.err]

\* bot.py:86-93, the try statement: the assignments are skipped when the
\* launch raises.
TryRelaunch(info, r) == IF r.raised THEN info ELSE Relaunched(info, r)

\* bot.py:85, bot.py:150 and bot.py:244, `path and Path(path).exists()`
Exists(path, there) == path # NoPath /\ there

\* ------------------------------------------------- Auto-restart on start
\* The host's answers to a loop over the bots: one per bot, the children of
\* one loop having ids of their own.
LoopAnswers(d, table) ==
    {env \in [Keys(d) -> HostAnswers(table)] :
        \A n, m \in Keys(d) : (env[n].ok /\ env[m].ok /\ n # m)
                                 => env[n].pid # env[m].pid}

\* Faulty variant of RestartOne: the launch is not in a try, its exception
\* leaves the loop.
RestartOneNoTry(name, out, acc) ==
    LET info == Get(acc.bots, name)
    IN IF ~IsDict(info)
       THEN [acc EXCEPT !.raised = TRUE]
       ELSE IF Exists(info.path, out.there)
       THEN LET r == start_bot_process(info.path, name, out)
            IN IF r.raised
               THEN [acc EXCEPT !.raised = TRUE, !.res[name] = Result(r)]
               ELSE [acc EXCEPT !.bots = Put(@, name, Relaunched(info, r)),
                                !.live = @ \cup {r.pid},
                                !.res[name] = Result(r)]
       ELSE [acc EXCEPT !.bots = Pop(@, name), !.res[name] = Missing]

\* bot.py:84-96, the body of the loop for the bot `name`, to which the host
\* answers `out`.  acc carries bots, the process table, the launch results
\* and whether an exception left the loop.
RestartOne(name, out, acc) ==
    LET info == Get(acc.bots, name)
    IN IF ~IsDict(info)
       THEN [acc EXCEPT !.raised = TRUE]        \* info.get: AttributeError
       ELSE IF Exists(info.path, out.there)
       THEN LET r == start_bot_process(info.path, name, out)
            IN [acc EXCEPT !.bots = Put(@, name, TryRelaunch(info, r)),
                           !.live = IF r.raised THEN @ ELSE @ \cup {r.pid},
                           !.res[name] = Result(r)]
       ELSE [acc EXCEPT !.bots = Pop(@, name), !.res[name] = Missing]

\* bot.py:83, the loop over list(bots.items()) from its i-th bot on.
RECURSIVE RestartLoop(_, _, _, _)
RestartLoop(ks, i, env, acc) ==
    IF i > Len(ks) \/ acc.raised THEN acc
    ELSE RestartLoop(ks, i + 1, env, RestartOne(ks[i], env[ks[i]], acc))

LoopStart == [bots |-> bots, live |-> live, res |-> NoRes, raised |-> FALSE]

\* bot.py:78-97, called once by the entrypoint (bot.py:299) before the
\* handlers are registered.  An exception that leaves it ends the process.
auto_restart_bots ==
    /\ pc = "boot"
    /\ IF ~Truthy(bots)
       THEN /\ pc' = "serving"
            /\ last' = Step("auto_restart", ADMIN_ID)
            /\ UNCHANGED <<bots, db, live>>
       ELSE IF ~IsDict(bots)
       THEN /\ pc' = "crashed"                   \* bots.items: AttributeError
            /\ last' = Raised(Step("auto_restart", ADMIN_ID))
            /\ UNCHANGED <<bots, db, live>>
       ELSE \E env \in LoopAnswers(bots, live) :
              LET acc == RestartLoop(KeySeq(bots), 1, env, LoopStart)
              IN /\ bots' = acc.bots
                 /\ live' = acc.live
                 /\ db' = IF acc.raised THEN db ELSE save_bots(acc.bots)
                 /\ pc' = IF acc.raised THEN "crashed" ELSE "serving"
                 /\ last' = [Step("auto_restart", ADMIN_ID) EXCEPT
                               !.done = ~acc.raised, !.res = acc.res,
                               !.streak =
                                 IF \A n \in Keys(bots) : acc.res[n].st = "ok"
                                 THEN IF last.streak = 0 THEN 1 ELSE 2
                                 ELSE 0]
    /\ UNCHANGED <<user_state, hist>>
    /\ UNCHANGED parts

\* The deployer process ends (a crash, a redeploy of the service) and is
\* started again: module level runs anew, bot.py:44-45.  Children run in
\* sessions of their own (bot.py:63) and are not ended by this.
Reboot ==
    /\ pc \in {"serving", "crashed"}
    /\ pc' = "boot"
    /\ bots' = load_bots(db)
    /\ user_state' = <<>>
    /\ hist' = <<>>
    /\ last' = [Step("reboot", ADMIN_ID) EXCEPT !.streak = last.streak]
    /\ UNCHANGED <<db, live>>
    /\ UNCHANGED parts

\* A process of the host ends: a child that exits, or is ended by a signal.
ProcessExit ==
    \E p \in live :
      /\ live' = live \ {p}
      /\ last' = Step("env", ADMIN_ID)
      /\ UNCHANGED <<bots, db, user_state, pc, hist>>
      /\ UNCHANGED parts

\* ------------------------------------------------------ Telegram handlers
\* The handlers run one at a time on the event loop of the polling thread
\* (bot.py:276-282), so each is one step.  A handler that raises is ended by
\* the library, which logs the exception; the process goes on.  A reply is
\* recorded by its kind: "error", "confirmation" or "progress", and "reply"
\* for the reply of a request.

\* Faulty variant of Serving: the handlers also run before the pass of the
\* start is over.
ServingAtBoot == pc \in {"boot", "serving"}

\* bot.py:299-303: the handlers exist once auto_restart_bots has returned.
Serving == pc = "serving"

Request(user) == Step("request", user)

\* Faulty variant of Authorized: every user is taken for the operator.
AuthorizedAnyone(user) == TRUE

\* bot.py:121, bot.py:190 and bot.py:229, the test of the sender's id.
Authorized(user) == user = ADMIN_ID

\* bot.py:121-123
cb_query_unauthorized(user) ==
    /\ Serving /\ ~Authorized(user)
    /\ last' = Reply(Request(user), <<"reply">>)
    /\ UNCHANGED <<bots, db, user_state, live, pc, hist>>
    /\ UNCHANGED parts

\* bot.py:126-128
cb_query_deploy(user) ==
    /\ Serving /\ Authorized(user)
    /\ user_state' = (user :> [step |-> "ask_bot", bot_path |-> NoPath,
                               req_path |-> NoPath]) @@ user_state
    /\ hist' = <<"intent">>
    /\ last' = Reply(Step("deploy", user), <<"confirmation">>)
    /\ UNCHANGED <<bots, db, live, pc>>
    /\ UNCHANGED parts

\* bot.py:129-136
cb_query_list(user) ==
    /\ Serving /\ Authorized(user)
    /\ last' = Reply(Request(user), <<"reply">>)
    /\ UNCHANGED <<bots, db, user_state, live, pc, hist>>
    /\ UNCHANGED parts

\* The host's answers to the stops of a loop over the bots.
StopAnswers(d, table) ==
    {sig \in [{n \in Keys(d) : Get(d, n).pid # NoPid}
                -> SignalOutcomes] :
        \A n \in DOMAIN sig : sig[n] \in SignalAnswers(Get(d, n).pid, table)}

\* bot.py:137-145.  sig[n] is the host's answer to the signals sent for bot
\* n.  bots.items() raises when bots is no dict.
cb_query_stop_all(user) ==
    /\ Serving /\ Authorized(user)
    /\ IF ~IsDict(bots)
       THEN /\ last' = Raised(Step("stop_all", user))
            /\ UNCHANGED <<bots, db>>
       ELSE \E sig \in StopAnswers(bots, live) :
              LET tried == DOMAIN sig
                  hit == {n \in tried :
                            stop_bot_process(Get(bots, n).pid, sig[n]).ret}
              IN /\ bots' = Clear(bots)
                 /\ db' = save_bots(bots')
                 /\ last' = [Reply(Step("stop_all", user), <<"confirmation">>)
                               EXCEPT !.failedStops = tried \ hit,
                                      !.noPid = Keys(bots) \ tried]
    /\ UNCHANGED <<user_state, live, pc, hist>>
    /\ UNCHANGED parts

\* bot.py:148-155, the loop from its i-th bot on.  start_bot_process is not
\* in a try: an exception of a launch leaves the loop and the handler.
RECURSIVE RestartAllLoop(_, _, _, _)
RestartAllLoop(ks, i, env, acc) ==
    IF i > Len(ks) \/ acc.raised THEN acc
    ELSE
      LET name == ks[i]
          info == Get(acc.bots, name)
      IN IF Exists(info.path, env[name].there)
         THEN LET r == start_bot_process(info.path, name, env[name])
              IN IF r.raised
                 THEN [acc EXCEPT !.raised = TRUE, !.res[name] = Result(r)]
                 ELSE RestartAllLoop(ks, i + 1, env,
                        [acc EXCEPT
                           !.bots = Put(@, name, Relaunched(info, r)),
                           !.live = @ \cup {r.pid},
                           !.res[name] = Result(r)])
         ELSE RestartAllLoop(ks, i + 1, env,
                [acc EXCEPT !.res[name] = Missing])

\* bot.py:146-157
cb_query_restart_all(user) ==
    /\ Serving /\ Authorized(user)
    /\ IF ~IsDict(bots)
       THEN /\ last' = Raised(Step("restart_all", user))
            /\ UNCHANGED <<bots, db, live>>
       ELSE \E env \in LoopAnswers(bots, live) :
              LET acc == RestartAllLoop(KeySeq(bots), 1, env, LoopStart)
              IN /\ bots' = acc.bots
                 /\ live' = acc.live
                 /\ db' = IF acc.raised THEN db ELSE save_bots(acc.bots)
                 /\ last' = [(IF acc.raised
                                THEN Raised(Step("restart_all", user))
                                ELSE Reply(Step("restart_all", user),
                                           <<"confirmation">>))
                               EXCEPT !.res = acc.res]
    /\ UNCHANGED <<user_state, pc, hist>>
    /\ UNCHANGED parts

\* bot.py:158-166
cb_query_view_logs(user) ==
    /\ Serving /\ Authorized(user)
    /\ last' = Reply(Request(user), <<"reply">>)
    /\ UNCHANGED <<bots, db, user_state, live, pc, hist>>
    /\ UNCHANGED parts

\* bot.py:167-186, for the button of any bot: every branch replies once.
\* bots.get raises when bots is no dict.
cb_query_log(user) ==
    /\ Serving /\ Authorized(user)
    /\ last' = IF ~IsDict(bots) THEN Raised(Request(user))
               ELSE Reply(Request(user), <<"reply">>)
    /\ UNCHANGED <<bots, db, user_state, live, pc, hist>>
    /\ UNCHANGED parts

\* bot.py:125-186 has no branch for any other callback data.
cb_query_other(user) ==
    /\ Serving /\ Authorized(user)
    /\ last' = Request(user)
    /\ UNCHANGED <<bots, db, user_state, live, pc, hist>>
    /\ UNCHANGED parts

\* --------------------------------------------------------------- deploy
\* What `pip install -r` does: exit status 0, another exit status, or
\* subprocess.run itself raising.
PipOutcomes == {"installed", "pip failed", "pip error"}

\* bot.py:256-260, the reply after pip.
PipReply(pip) == IF pip = "installed" THEN "progress" ELSE "error"

\* Faulty variant of Registered: a launch that raised is taken for one that
\* returned.
RegisteredAlways(r, d) == IsDict(d)

\* bot.py:263-270, the try: the statements after start_bot_process run when
\* it returned, and `bots[bot_name] = ...` raises when bots is no dict.
Registered(r, d) == ~r.raised /\ IsDict(d)

\* Faulty variant of DropSession: the session is kept.
KeepSession(user) == user_state

\* bot.py:246 and bot.py:272, user_state.pop(user_id, None)
DropSession(user) == [u \in DOMAIN user_state \ {user} |-> user_state[u]]

\* bot.py:240-272, for the session `info` (user_state[user_id], with the
\* req_path its caller may just have stored); `step` holds the replies the
\* caller sent before and `h` the session's events so far.  The requirements
\* file was stored by the calling handler and is there; the program was
\* stored by an earlier one (out.there).  `bots[bot_name] = ...` raises inside
\* the try when bots is no dict.
finalize_deploy(user_id, info, step, h, pip, out) ==
    LET bot_path == info.bot_path
        req_path == info.req_path
        install == Exists(req_path, TRUE)
        s1 == IF install
              THEN Reply(step, <<"progress", PipReply(pip)>>)
              ELSE step
        h1 == h \o (IF install THEN <<"install">> ELSE <<>>) \o <<"launch">>
        bot_name == PathName(bot_path)
        r == start_bot_process(bot_path, bot_name, out)
    IN /\ user_state' = DropSession(user_id)
       /\ hist' = <<>>
       /\ IF ~Exists(bot_path, out.there)
          THEN /\ last' = [Reply(step, <<"error">>) EXCEPT
                             !.events = h, !.res[bot_name] = Missing]
               /\ UNCHANGED <<bots, db, live>>
          ELSE /\ live' = IF r.raised THEN live ELSE live \cup {r.pid}
               /\ IF ~Registered(r, bots)
                  THEN /\ last' = [Reply(s1, <<"error">>) EXCEPT
                                     !.events = h1,
                                     !.res[bot_name] = Result(r)]
                       /\ UNCHANGED <<bots, db>>
                  ELSE /\ bots' = Put(bots, bot_name,
                                      [t |-> "dict", path |-> bot_path,
                                       pid |-> r.pid, log |-> r.log,
                                       err |-> r.err])
                       /\ db' = save_bots(bots')
                       /\ last' = [Reply(s1, <<"confirmation">>) EXCEPT
                                     !.events = h1,
                                     !.res[bot_name] = Result(r)]

\* bot.py:207 and bot.py:218, the tests of the document's file name.
IsPy(filename) == filename \in PyFiles
IsTxt(filename) == filename \in TxtFiles

\* bot.py:190-192
doc_handler_unauthorized(user) ==
    /\ Serving /\ ~Authorized(user)
    /\ last' = Reply(Request(user), <<"reply">>)
    /\ UNCHANGED <<bots, db, user_state, live, pc, hist>>
    /\ UNCHANGED parts

\* bot.py:194-196
doc_handler_no_session(user) ==
    /\ Serving /\ Authorized(user) /\ user \notin DOMAIN user_state
    /\ last' = Reply(Request(user), <<"reply">>)
    /\ UNCHANGED <<bots, db, user_state, live, pc, hist>>
    /\ UNCHANGED parts

\* bot.py:204-214
doc_handler_ask_bot(user, filename) ==
    /\ Serving /\ Authorized(user) /\ user \in DOMAIN user_state
    /\ user_state[user].step = "ask_bot"
    /\ IF ~IsPy(filename)
       THEN /\ last' = Reply(Request(user), <<"reply">>)
            /\ UNCHANGED <<user_state, hist>>
       ELSE /\ user_state' = [user_state EXCEPT
                                ![user].bot_path = UploadDest(user, filename),
                                ![user].step = "ask_req"]
            /\ hist' = Append(hist, "program")
            /\ last' = Reply(Step("upload", user), <<"confirmation">>)
    /\ UNCHANGED <<bots, db, live, pc>>
    /\ UNCHANGED parts

\* bot.py:215-225
doc_handler_ask_req(user, filename) ==
    /\ Serving /\ Authorized(user) /\ user \in DOMAIN user_state
    /\ user_state[user].step = "ask_req"
    /\ IF IsTxt(filename)
       THEN \E pip \in PipOutcomes, out \in HostAnswers(live) :
              /\ ~out.there => pip = "installed"
              /\ finalize_deploy(user,
                   [user_state[user] EXCEPT !.req_path = ReqDest(user)],
                   Reply(Step("finalize", user), <<"progress">>),
                   Append(hist, "requirements"),
                   pip, out)
       ELSE /\ last' = Reply(Request(user), <<"reply">>)
            /\ UNCHANGED <<bots, db, user_state, live, hist>>
    /\ pc' = pc
    /\ UNCHANGED parts

\* Text messages, and those among them that are the skip signal.
Texts == {" None ", "hello"}
SkipSignals == {" None "}

\* Faulty variant of StripLower: every text is taken for the skip signal.
AlwaysNone(txt) == "none"

\* bot.py:233, (update.message.text or "").strip().lower()
StripLower(txt) == IF txt = " None " THEN "none" ELSE txt

\* bot.py:227-238
text_handler(user, txt) ==
    /\ Serving
    /\ IF Authorized(user) /\ user \in DOMAIN user_state
          /\ user_state[user].step = "ask_req"
       THEN IF StripLower(txt) = "none"
            THEN \E out \in HostAnswers(live) :
                   finalize_deploy(user, user_state[user],
                      Reply(Step("finalize", user), <<"progress">>),
                      Append(hist, IF txt \in SkipSignals
                                   THEN "skip" ELSE "text"),
                      "installed", out)
            ELSE /\ last' = Reply(Request(user), <<"reply">>)
                 /\ UNCHANGED <<bots, db, user_state, live, hist>>
       ELSE /\ last' = Request(user)
            /\ UNCHANGED <<bots, db, user_state, live, hist>>
    /\ pc' = pc
    /\ UNCHANGED parts

\* ------------------------------------------------------------ the system
\* The bots a deployer run can have written, or an editor can have left, in
\* bots_data.json: the path and the pid of an info may be missing.
InitInfos(n) ==
    {[t |-> "dict", path |-> p, pid |-> q, log |-> LogOf(n), err |-> ErrOf(n)] :
        p \in {PathOf(n), NoPath}, q \in {NoPid, 1}}

KeySeqs ==
    {ks \in UNION {[1..k -> Names] : k \in 0..Cardinality(Names)} :
        \A i, j \in 1..Len(ks) : ks[i] = ks[j] => i = j}

Registries ==
    UNION {{[t |-> "dict",
             items |-> [i \in 1..Len(ks) |-> <<ks[i], f[ks[i]]>>]] :
               f \in {g \in [Names -> UNION {InitInfos(n) : n \in Names}] :
                        \A n \in Names : g[n] \in InitInfos(n)}} :
           ks \in KeySeqs}

\* JSON that parses and is no registry: null, [], [1], and an object with a
\* member that is no object.
OtherValues ==
    {PyNone, [t |-> "list", len |-> 0], [t |-> "list", len |-> 1]}
    \cup {[t |-> "dict", items |-> << <<n, [t |-> "int", v |-> 5]>> >>] :
            n \in Names}
    \cup {[t |-> "dict",
           items |-> << <<p[1], [t |-> "dict", path |-> PathOf(p[1]),
                                pid |-> 1, log |-> LogOf(p[1]),
                                err |-> ErrOf(p[1])]>>,
                        <<p[2], [t |-> "int", v |-> 5]>> >>] :
            p \in {q \in Names \X Names : q[1] # q[2]}}

InitFiles ==
    {NoFile, FileOf(Garbage)}
    \cup {FileOf(Dumps(v)) : v \in Registries \cup OtherValues}

\* bot.py:44-45: the module's globals, before the entrypoint runs.
Init ==
    /\ db \in InitFiles
    /\ bots = load_bots(db)
    /\ user_state = <<>>
    /\ live = {}
    /\ pc = "boot"
    /\ hist = <<>>
    /\ last = Step("init", ADMIN_ID)
    /\ saving = Off /\ tailing = Off /\ groups = Off /\ loop = Off

cb_query ==
    \E user \in Users :
      \/ cb_query_unauthorized(user)
      \/ cb_query_deploy(user)
      \/ cb_query_list(user)
      \/ cb_query_stop_all(user)
      \/ cb_query_restart_all(user)
      \/ cb_query_view_logs(user)
      \/ cb_query_log(user)
      \/ cb_query_other(user)

doc_handler ==
    \E user \in Users :
      \/ doc_handler_unauthorized(user)
      \/ doc_handler_no_session(user)
      \/ \E filename \in FileNames : doc_handler_ask_bot(user, filename)
      \/ \E filename \in FileNames : doc_handler_ask_req(user, filename)

Next ==
    \/ auto_restart_bots
    \/ Reboot
    \/ ProcessExit
    \/ cb_query
    \/ doc_handler
    \/ \E user \in Users, txt \in Texts : text_handler(user, txt)

Spec == Init /\ [][Next]_vars

\* ======================================================== parts on their own
\* The deployer as a whole, not looked at.
WholeOff ==
    /\ bots = EmptyDict /\ db = NoFile /\ user_state = <<>> /\ live = {}
    /\ pc = "off" /\ hist = <<>> /\ last = Step("init", ADMIN_ID)

\* ------------------------------------------------------ save_bots in steps
\* bot.py:40-41, DB_FILE.write_text(json.dumps(data, indent=2)), in the steps
\* of Path.write_text: open(mode "w") empties the file, write() and close()
\* bring the text to the file, possibly a part of it first.  `saving` holds
\* the position of the call, its argument, the file and, for the properties,
\* the file as it was before the call.  The deployer can be ended by the host
\* before any of the steps.
SaveCalls ==
    {[on |-> TRUE, pos |-> "call", data |-> d, file |-> f, old |-> f] :
        d \in Registries, f \in InitFiles}

\* An empty file, or the first part of a JSON text: json.loads rejects both.
Truncated == FileOf(Garbage)

write_text_open ==
    /\ saving.on /\ saving.pos = "call"
    /\ saving' = [saving EXCEPT !.pos = "opened", !.file = Truncated]
    /\ UNCHANGED <<whole, tailing, groups, loop>>

write_text_part ==
    /\ saving.on /\ saving.pos = "opened"
    /\ saving' = [saving EXCEPT !.pos = "part", !.file = Truncated]
    /\ UNCHANGED <<whole, tailing, groups, loop>>

write_text_close ==
    /\ saving.on /\ saving.pos \in {"opened", "part"}
    /\ saving' = [saving EXCEPT !.pos = "closed",
                                !.file = save_bots(saving.data)]
    /\ UNCHANGED <<whole, tailing, groups, loop>>

\* The deployer process is ended while save_bots runs.
SaveCrash ==
    /\ saving.on /\ saving.pos \in {"call", "opened", "part"}
    /\ saving' = [saving EXCEPT !.pos = "crashed"]
    /\ UNCHANGED <<whole, tailing, groups, loop>>

SaveInit ==
    /\ WholeOff
    /\ saving \in SaveCalls
    /\ tailing = Off /\ groups = Off /\ loop = Off

SaveNext ==
    \/ write_text_open
    \/ write_text_part
    \/ write_text_close
    \/ SaveCrash

SaveSpec == SaveInit /\ [][SaveNext]_vars

\* --------------------------------------------------- the tail of a log file
\* Lines of a log file: up to MaxLines lines, of the lengths LineLens.
MaxLines == 82
LineLens == {0, 1, 60}

\* bot.py:180, content[-80:], and bot.py:181-182, the 3900 characters.
TailLines == 80
TailChars == 3900

\* A text is modelled by the pieces of lines it is made of, joined by "\n":
\* [no |-> the line's place in the file, from |-> the characters of the line
\* that are left out in front, len |-> the characters of it that are there].
\* A whole line of length l is [no, from |-> 0, len |-> l].
WholeLine(line) == [no |-> line.no, from |-> 0, len |-> line.len]

\* f.read().decode().splitlines() of a file whose odd lines have a characters
\* and whose even lines have b.
LogContent(n, a, b) ==
    [i \in 1..n |-> [no |-> i, len |-> IF i % 2 = 1 THEN a ELSE b]]

LogContents ==
    {LogContent(n, a, b) : n \in 0..MaxLines, a \in LineLens, b \in LineLens}

\* content[-k:]
LastItems(content, k) ==
    SubSeq(content, IF Len(content) > k THEN Len(content) - k + 1 ELSE 1,
           Len(content))

\* len("\n".join(pieces))
RECURSIVE JoinedLen(_)
JoinedLen(pieces) ==
    IF Len(pieces) = 0 THEN 0
    ELSE IF Len(pieces) = 1 THEN pieces[1].len
    ELSE pieces[1].len + 1 + JoinedLen(Tail(pieces))

\* text[d:], the text without its first d characters (d <= len(text)).
RECURSIVE DropFront(_, _)
DropFront(pieces, d) ==
    IF d = 0 \/ Len(pieces) = 0 THEN pieces
    ELSE IF d > pieces[1].len /\ Len(pieces) > 1
    THEN DropFront(Tail(pieces), d - pieces[1].len - 1)
    ELSE <<[pieces[1] EXCEPT !.from = @ + d, !.len = @ - d]>> \o Tail(pieces)

\* bot.py:180-182, the text put between <pre> and </pre>; `placeholder` when
\* it is "(empty)" in place of an empty text.
LogTail(content) ==
    LET lines == LastItems(content, TailLines)
        joined == [i \in 1..Len(lines) |-> WholeLine(lines[i])]
        size == JoinedLen(joined)
    IN IF size = 0 THEN [text |-> <<>>, placeholder |-> TRUE]
       ELSE IF size > TailChars
       THEN [text |-> DropFront(joined, size - TailChars),
             placeholder |-> FALSE]
       ELSE [text |-> joined, placeholder |-> FALSE]

\* bot.py:177-183, the log__ branch for a log file that is there: read, tail,
\* reply.
cb_query_log_send ==
    /\ tailing.on /\ tailing.pos = "read"
    /\ tailing' = [tailing EXCEPT !.pos = "sent",
                                  !.sent = LogTail(tailing.content)]
    /\ UNCHANGED <<whole, saving, groups, loop>>

TailInit ==
    /\ WholeOff
    /\ tailing \in {[on |-> TRUE, pos |-> "read", content |-> c,
                     sent |-> [text |-> <<>>, placeholder |-> FALSE]] :
                      c \in LogContents}
    /\ saving = Off /\ groups = Off /\ loop = Off

TailNext == cb_query_log_send

TailSpec == TailInit /\ [][TailNext]_vars

\* ------------------------------------------- process groups and signals
\* bot.py:48-75 against the process table of the host.  Popen(...,
\* preexec_fn=os.setsid) makes the child the leader of a new session and
\* process group whose id is the child's pid; a process the child forks
\* stays in that group.  A child of the deployer that exited stays in the
\* table as a zombie until the next Popen() reaps it (subprocess._cleanup);
\* any other process that exits leaves the table at once.  The host gives a
\* new process no pid that is still the id of a process or of a group.
\* `groups` holds the table, the pids of the registry and, for the
\* properties, what the stop_bot_process calls of the last stop_all did.
ProcIds == 1..MaxProc

NoProc == [role |-> "none", pg |-> NoPid, zombie |-> FALSE]

InTable(table) == {p \in ProcIds : table[p].role # "none"}

GroupOf(table, g) == {p \in InTable(table) : table[p].pg = g}

FreeIds(table) ==
    {p \in ProcIds : p \notin InTable(table) /\ GroupOf(table, p) = {}}

Supervisor(table) == CHOOSE p \in ProcIds : table[p].role = "supervisor"

\* subprocess._cleanup(): the zombies among the deployer's children go.
Reaped(table) ==
    [p \in ProcIds |-> IF table[p].zombie THEN NoProc ELSE table[p]]

\* bot.py:59-64 and the record written by the caller: a new record, or the
\* record of a bot whose pid `old` is replaced.
GroupLaunch ==
    /\ groups.on
    /\ LET table == Reaped(groups.table)
       IN \E p \in FreeIds(table), old \in groups.reg \cup {NoPid} :
            groups' = [groups EXCEPT
                 !.table = [table EXCEPT ![p] =
                    [role |-> "child", pg |-> p, zombie |-> FALSE]],
                 !.reg = (@ \ {old}) \cup {p},
                 !.got = {}]
    /\ UNCHANGED <<whole, saving, tailing, loop>>

\* The host: a bot, or a process a bot started, forks.
GroupFork ==
    /\ groups.on
    /\ \E parent \in InTable(groups.table), q \in FreeIds(groups.table) :
         /\ groups.table[parent].role \in {"child", "orphan", "descendant"}
         /\ ~groups.table[parent].zombie
         /\ groups' = [groups EXCEPT
              !.table[q] = [role |-> "descendant",
                            pg |-> groups.table[parent].pg,
                            zombie |-> FALSE],
              !.got = {}]
    /\ UNCHANGED <<whole, saving, tailing, loop>>

\* The host: a process other than the deployer exits.
GroupExit ==
    /\ groups.on
    /\ \E p \in InTable(groups.table) :
         /\ groups.table[p].role # "supervisor"
         /\ ~groups.table[p].zombie
         /\ groups' = [groups EXCEPT
              !.table[p] = IF groups.table[p].role = "child"
                           THEN [@ EXCEPT !.zombie = TRUE]
                           ELSE NoProc,
              !.got = {}]
    /\ UNCHANGED <<whole, saving, tailing, loop>>

\* The deployer is restarted by the host: its children stay, as orphans,
\* its zombies go, the registry comes back from the file (bot.py:44) with
\* the pids it had, and the new deployer has any pid that is free.  A
\* record keeps its pid through auto_restart_bots when its relaunch raised
\* (bot.py:93-94); a relaunch that worked is a GroupLaunch.
GroupReboot ==
    /\ groups.on
    /\ LET s == Supervisor(groups.table)
           left == [p \in ProcIds |->
                      IF p = s \/ groups.table[p].zombie THEN NoProc
                      ELSE IF groups.table[p].role = "child"
                      THEN [groups.table[p] EXCEPT !.role = "orphan"]
                      ELSE groups.table[p]]
       IN \E p \in FreeIds(left) :
            groups' = [groups EXCEPT
               !.table = [left EXCEPT ![p] =
                  [role |-> "supervisor", pg |-> p, zombie |-> FALSE]],
               !.got = {}]
    /\ UNCHANGED <<whole, saving, tailing, loop>>

\* What the host lets through of the two calls of a stop_bot_process (a
\* host may refuse os.getpgid for a process of another session, or a signal).
HostLets == [group : BOOLEAN, single : BOOLEAN]

\* bot.py:68 and 72 on the table: os.getpgid(pid) and os.kill(pid, ...)
\* raise for a pid that is not in the table; os.killpg reaches the group.
SignalsOf(table, pid, h) ==
    LET group == pid \in InTable(table) /\ h.group
    IN [group |-> group,
        single |-> ~group /\ pid \in InTable(table) /\ h.single]

\* The processes a call of stop_bot_process(pid) signalled.
HitBy(table, pid, out) ==
    UNION {IF out.calls[i].ok
           THEN IF out.calls[i].to = "group"
                THEN GroupOf(table, table[pid].pg)
                ELSE {pid}
           ELSE {} : i \in DOMAIN out.calls}

\* The bot and the processes it started that are in the group of the bot
\* launched as `pid`.
InGroupOfBot(table, pid) ==
    {q \in GroupOf(table, pid) :
        /\ table[q].role \in {"child", "orphan", "descendant"}
        /\ ~table[q].zombie}

\* bot.py:137-145 on the table: one stop_bot_process for every pid of the
\* registry, then the registry is empty.
GroupStopAll ==
    /\ groups.on /\ groups.reg # {}
    /\ \E h \in HostLets :
         groups' = [groups EXCEPT
            !.reg = {},
            !.got = {LET out == stop_bot_process(pid,
                                    SignalsOf(groups.table, pid, h))
                         hit == HitBy(groups.table, pid, out)
                     IN [pid |-> pid, out |-> out, hit |-> hit,
                         let |-> h.group /\ h.single,
                         missed |-> InGroupOfBot(groups.table, pid) \ hit]
                       : pid \in groups.reg}]
    /\ UNCHANGED <<whole, saving, tailing, loop>>

GroupInit ==
    /\ WholeOff
    /\ groups = [on |-> TRUE,
                 table |-> [p \in ProcIds |->
                    IF p = 1
                    THEN [role |-> "supervisor", pg |-> p, zombie |-> FALSE]
                    ELSE NoProc],
                 reg |-> {},
                 got |-> {}]
    /\ saving = Off /\ tailing = Off /\ loop = Off

GroupNext ==
    \/ GroupLaunch
    \/ GroupFork
    \/ GroupExit
    \/ GroupReboot
    \/ GroupStopAll

GroupSpec == GroupInit /\ [][GroupNext]_vars

\* ------------------------------------------------ handlers on the event loop
\* The coroutines of bot.py as sequences of statements on the one asyncio
\* event loop of run_telegram (bot.py:275-282): the running coroutine keeps
\* the loop until it reaches an await, and any coroutine in flight may go
\* on after that; nothing is assumed on how many updates the library has in
\* flight, up to MaxTasks.  auto_restart_bots runs in the main thread
\* before the thread of the event loop is started (bot.py:299-303).
\* "launch" is a start_bot_process, "change" an assignment to the registry
\* or its records, "stop" the loop of stop_bot_process calls, "pip" the
\* blocking subprocess.run.  `loop` holds the position of the main thread
\* and of every coroutine and, for the properties, which of them are between
\* their first change of the registry and the end of their save_bots.
TaskIds == 1..MaxTasks

LoopOps == {"stop_all", "restart_all", "finalize"}

Program(op) ==
    CASE op = "boot" ->          \* bot.py:83-97, two records
           <<"launch", "change", "launch", "change", "save">>
      [] op = "stop_all" ->      \* bot.py:119, 139-145
           <<"await", "stop", "change", "save", "await">>
      [] op = "restart_all" ->   \* bot.py:119, 148-157, two records
           <<"await", "launch", "change", "launch", "change", "save",
             "await">>
      [] op = "finalize" ->      \* bot.py:220-223, 252-272
           <<"await", "await", "await", "pip", "await", "launch", "change",
             "save", "await">>
      [] OTHER -> <<>>

\* Where the exception of a launch takes a coroutine: past the assignments
\* of the record in auto_restart_bots (bot.py:93-94), to the reply of
\* finalize_deploy (bot.py:269-270), out of the handler in restart_all.
AfterRaise(op, pos) ==
    CASE op = "boot" -> pos + 2
      [] op = "finalize" -> Len(Program(op))
      [] OTHER -> Len(Program(op)) + 1

\* A coroutine can be suspended at any statement.
YieldsAnywhere(stmt) == TRUE

\* asyncio: a coroutine gives up the loop at an await only.
Yields(stmt) == stmt = "await"

NoTask == [op |-> "none", pos |-> 0]

BootId == 0

\* The marks after `who` ran the statement stmt and is then at position pos
\* of its program.
Marked(who, op, stmt, pos) ==
    LET others == loop.inside \ {who}
        inside == IF pos > Len(Program(op)) \/ stmt = "save"
                  THEN others
                  ELSE IF stmt = "change" THEN others \cup {who}
                  ELSE loop.inside
    IN [loop EXCEPT
          !.inside = inside,
          !.clash = @ \/ (stmt \in {"change", "save"} /\ others # {}),
          !.pipInside = @ \/ (stmt = "pip" /\ who \in loop.inside)]

\* bot.py:299, auto_restart_bots, statement by statement.
LoopBoot ==
    /\ loop.on /\ loop.main = "boot"
    /\ loop.bootpos <= Len(Program("boot"))
    /\ LET stmt == Program("boot")[loop.bootpos]
       IN \E ok \in (IF stmt = "launch" THEN BOOLEAN ELSE {TRUE}) :
            LET pos == IF ok THEN loop.bootpos + 1
                       ELSE AfterRaise("boot", loop.bootpos)
            IN loop' = [Marked(BootId, "boot", stmt, pos)
                          EXCEPT !.bootpos = pos]
    /\ UNCHANGED <<whole, saving, tailing, groups>>

\* bot.py:302-303, the thread of run_telegram is started.
LoopThreadStart ==
    /\ loop.on /\ loop.main = "boot"
    /\ loop.bootpos > Len(Program("boot"))
    /\ loop' = [loop EXCEPT !.main = "serving"]
    /\ UNCHANGED <<whole, saving, tailing, groups>>

\* An update of the operator arrives and its handler is scheduled.
LoopSpawn ==
    /\ loop.on /\ loop.main = "serving"
    /\ \E t \in TaskIds, op \in LoopOps :
         /\ loop.tasks[t] = NoTask
         /\ loop' = [loop EXCEPT !.tasks[t] = [op |-> op, pos |-> 1]]
    /\ UNCHANGED <<whole, saving, tailing, groups>>

\* The event loop goes on with a coroutine that is in flight.
LoopResume ==
    /\ loop.on /\ loop.running = BootId
    /\ \E t \in TaskIds :
         /\ loop.tasks[t] # NoTask
         /\ loop' = [loop EXCEPT !.running = t]
    /\ UNCHANGED <<whole, saving, tailing, groups>>

\* The running coroutine executes its next statement.
LoopStep ==
    /\ loop.on /\ loop.running # BootId
    /\ LET t == loop.running
           op == loop.tasks[t].op
           at == loop.tasks[t].pos
           stmt == Program(op)[at]
       IN \E ok \in (IF stmt = "launch" THEN BOOLEAN ELSE {TRUE}) :
            LET pos == IF ok THEN at + 1 ELSE AfterRaise(op, at)
                over == pos > Len(Program(op))
            IN loop' = [Marked(t, op, stmt, pos) EXCEPT
                  !.tasks[t] = IF over THEN NoTask
                               ELSE [op |-> op, pos |-> pos],
                  !.running = IF over \/ Yields(stmt) THEN BootId ELSE t]
    /\ UNCHANGED <<whole, saving, tailing, groups>>

LoopInit ==
    /\ WholeOff
    /\ loop = [on |-> TRUE, main |-> "boot", bootpos |-> 1,
               tasks |-> [t \in TaskIds |-> NoTask], running |-> BootId,
               inside |-> {}, clash |-> FALSE, pipInside |-> FALSE]
    /\ saving = Off /\ tailing = Off /\ groups = Off

LoopNext ==
    \/ LoopBoot
    \/ LoopThreadStart
    \/ LoopSpawn
    \/ LoopResume
    \/ LoopStep

LoopSpec == LoopInit /\ [][LoopNext]_vars

\* ============================================================ properties
\* The registry the next start of the deployer would load.
OnDisk == load_bots(db)

\* A value is a registry when it is a dict whose values are dicts.
IsRegistry(v) == IsDict(v) /\ \A i \in 1..Len(v.items) : IsDict(v.items[i][2])

\* Same names and, for every name, the same path, pid and log paths.
SameRegistry(a, b) ==
    IF IsRegistry(a) /\ IsRegistry(b) THEN AsMap(a) = AsMap(b) ELSE a = b

\* The positions of name n in the dict d.
Places(d, n) == {i \in 1..Len(d.items) : d.items[i][1] = n}

\* The names a step launched a child for.
Started(step) == {n \in Names : step.res[n].st = "ok"}

OperatorOps ==
    {"request", "deploy", "upload", "finalize", "stop_all", "restart_all"}

\* C1: whenever no operation is in progress (the deployer is serving, between
\* two handler calls), the registry on disk equals the registry in memory:
\* same names and, per name, the same path, pid and log paths.
C1_DiskEqualsMemory == pc = "serving" => SameRegistry(OnDisk, bots)

\* C2: when stop_all has run to its end the registry is empty in memory and
\* on disk, whatever the registry was and whatever the stops answered.
C2_StopAllClears ==
    [][(last'.op = "stop_all" /\ last'.done) =>
          (bots' = EmptyDict /\ load_bots(db') = EmptyDict)]_vars

\* C2, its case: a stop_all that ended although a stop failed and a bot had
\* no pid.
C2_Witness ==
    /\ last.op = "stop_all" /\ last.done
    /\ last.failedStops # {} /\ last.noPid # {}
    /\ bots = EmptyDict /\ OnDisk = EmptyDict

\* C3: after auto_restart_bots, a bot whose path was not an existing file when
\* the loop came to it is in the registry neither in memory nor on disk, and
\* no child was started for it: the step's new processes are exactly those of
\* the launches that returned.
C3_DropOnMissing ==
    [][(last'.op = "auto_restart" /\ last'.done) =>
          /\ \A n \in Names : last'.res[n].st = "missing" =>
                /\ n \in Keys(bots)
                /\ n \notin Keys(bots')
                /\ n \notin Keys(load_bots(db'))
                /\ last'.res[n].pid = NoPid
          /\ live' = live \cup {last'.res[n].pid : n \in Started(last')}]_vars

\* C3, its case: a run that dropped one bot and relaunched another.
C3_Witness ==
    /\ last.op = "auto_restart" /\ last.done
    /\ \E n, m \in Names :
         /\ last.res[n].st = "missing" /\ n \notin Keys(bots)
         /\ last.res[m].st = "ok" /\ m \in Keys(bots)

\* C4: in auto_restart_bots on a registry, a launch that fails does not end
\* the loop: the run comes to every bot and to its end, every bot whose launch
\* returned holds the pid and the log paths of that launch, and the registry
\* is saved.
C4_FailureIsolated ==
    [][(last'.op = "auto_restart" /\ IsRegistry(bots) /\ Truthy(bots)) =>
          /\ last'.done
          /\ \A n \in Keys(bots) : last'.res[n].st # "none"
          /\ \A n \in Keys(bots) : last'.res[n].st = "ok" =>
                /\ n \in Keys(bots')
                /\ Get(bots', n) =
                     [Get(bots, n) EXCEPT !.pid = last'.res[n].pid,
                                          !.log = LogOf(n), !.err = ErrOf(n)]
                /\ last'.res[n].pid \in live' \ live
          /\ load_bots(db') = bots']_vars

\* C4, its case: the launch of the first bot failed and the second bot was
\* relaunched.
C4_Witness ==
    /\ last.op = "auto_restart" /\ last.done
    /\ IsDict(bots) /\ Len(bots.items) = 2
    /\ last.res[bots.items[1][1]].st = "failed"
    /\ last.res[bots.items[2][1]].st = "ok"
    /\ bots.items[2][2].pid = last.res[bots.items[2][1]].pid

\* C5: in auto_restart_bots, a bot whose file is there and whose launch fails
\* stays in the registry, in memory and on disk, with the path, pid and log
\* paths it had.
C5_FailedLaunchKeepsRecord ==
    [][last'.op = "auto_restart" =>
          \A n \in Names : last'.res[n].st = "failed" =>
             /\ n \in Keys(bots) /\ n \in Keys(bots')
             /\ Get(bots', n) = Get(bots, n)
             /\ Get(load_bots(db'), n) = Get(bots, n)]_vars

\* C5, its case: a bot with a pid whose launch failed is kept, next to a bot
\* that was dropped for its missing file.
C5_Witness ==
    /\ last.op = "auto_restart" /\ last.done
    /\ \E n, m \in Names :
         /\ last.res[n].st = "failed" /\ n \in Keys(bots)
         /\ Get(bots, n).pid # NoPid
         /\ last.res[m].st = "missing" /\ m \notin Keys(bots)

\* C6 as stated: a run of auto_restart_bots in which every file is there and
\* every launch returns keeps the names and gives every bot a pid other than
\* the one it held before the run.
C6_AlwaysNewPid ==
    [][(last'.op = "auto_restart" /\ last'.streak > 0) =>
          /\ Keys(bots') = Keys(bots)
          /\ \A n \in Keys(bots) : Get(bots', n).pid # Get(bots, n).pid]_vars

\* C6 as amended: such a run keeps the names and gives every bot the pid its
\* own launch returned, the id of a process that was not there before the run
\* and that no other bot holds; that pid is other than the one the bot held
\* before whenever the process of the old pid was still there.
C6_RelaunchReplaces ==
    [][(last'.op = "auto_restart" /\ last'.streak > 0) =>
          /\ Keys(bots') = Keys(bots)
          /\ \A n \in Keys(bots) :
                /\ Get(bots', n).pid = last'.res[n].pid
                /\ Get(bots', n).pid \in live' \ live
                /\ Get(bots, n).pid \in live =>
                      Get(bots', n).pid # Get(bots, n).pid
                /\ \A m \in Keys(bots) \ {n} :
                      Get(bots', m).pid # Get(bots', n).pid]_vars

\* C6, its case: the second of two runs in a row, each of which relaunched
\* every bot, with a process of the first run still there.
C6_Witness ==
    /\ last.op = "auto_restart" /\ last.streak = 2
    /\ Keys(bots) # {}
    /\ \A n \in Keys(bots) : Get(bots, n).pid = last.res[n].pid
    /\ \E p \in live : \A n \in Keys(bots) : Get(bots, n).pid # p

\* C7: a deploy changes the registry, in memory or on disk, only when its
\* launch returned a pid; when the program file is missing or the launch
\* fails the operator gets an error reply; when the launch returned, the
\* registry holds one item for the name, with the uploaded path, the new pid
\* and the log paths, the other bots are as they were, and it is saved.
C7_DeployRegisters ==
    [][last'.op = "finalize" =>
          LET path == user_state[ADMIN_ID].bot_path
              n == PathName(path)
              r == last'.res[n]
          IN /\ r.st \in {"missing", "failed"} =>
                   /\ bots' = bots /\ db' = db
                   /\ last'.replies[Len(last'.replies)] = "error"
             /\ (bots' # bots \/ db' # db) => r.st = "ok"
             /\ (r.st = "ok" /\ IsDict(bots)) =>
                   /\ Cardinality(Places(bots', n)) = 1
                   /\ Get(bots', n) =
                        [t |-> "dict", path |-> path, pid |-> r.pid,
                         log |-> LogOf(n), err |-> ErrOf(n)]
                   /\ r.pid \in live' \ live
                   /\ Keys(bots') = Keys(bots) \cup {n}
                   /\ \A m \in Keys(bots) \ {n} : Get(bots', m) = Get(bots, m)
                   /\ load_bots(db') = bots']_vars

\* C7, its case: a deploy of a name the registry already held, before another
\* bot, has ended with a launch that returned.
C7_Witness ==
    /\ last.op = "finalize"
    /\ IsDict(bots) /\ Len(bots.items) = 2
    /\ last.res[bots.items[1][1]].st = "ok"
    /\ bots.items[1][2].pid = last.res[bots.items[1][1]].pid

\* C8: every handler call made for the operator sends exactly one reply.
C8_ExactlyOneReply ==
    (last.user = ADMIN_ID /\ last.op \in OperatorOps) => Len(last.replies) = 1

C10_LoadAndBootNeverFail ==
    /\ pc = "boot" =>
         /\ IsRegistry(bots)
         /\ (db = NoFile \/ db = FileOf(Garbage)) => bots = EmptyDict
    /\ pc # "crashed"

\* C11: when the deployer is ended during save_bots, the file that the next
\* start reads is the one from before the call or the complete new one.
C11_SaveAtomic ==
    (saving.on /\ saving.pos = "crashed") =>
        (saving.file = saving.old \/ saving.file = save_bots(saving.data))

\* C12: what the log__ branch sends of a log file is the last 80 lines of
\* the file, all of them when the file has fewer, each whole and in the
\* file's order ("(empty)" standing for a text of no character).
C12_TailIsLastLines ==
    (tailing.on /\ tailing.pos = "sent") =>
        LET n == Len(tailing.content)
            k == IF n > TailLines THEN TailLines ELSE n
            lines == [i \in 1..k |-> WholeLine(tailing.content[n - k + i])]
        IN IF tailing.sent.placeholder
           THEN JoinedLen(lines) = 0
           ELSE tailing.sent.text = lines

\* C13: stop_bot_process first signals the process group of the pid, signals
\* the pid itself only when the signal to the group failed, returns true
\* exactly when one of the two signals was delivered and false exactly when
\* both failed, and raises nothing.
C13_GroupThenSingle ==
    groups.on =>
      \A g \in groups.got :
        LET calls == g.out.calls
        IN /\ Len(calls) \in {1, 2}
           /\ calls[1].to = "group"
           /\ (Len(calls) = 2) <=> ~calls[1].ok
           /\ Len(calls) = 2 => calls[2].to = "single"
           /\ g.out.ret <=> (\E i \in DOMAIN calls : calls[i].ok)
           /\ ~g.out.raised

C13_Witness ==
    /\ groups.on
    /\ \E g \in groups.got :
         Len(g.out.calls) = 2 /\ g.out.calls[2].ok /\ g.out.ret
    /\ \E g \in groups.got : Len(g.out.calls) = 2 /\ ~g.out.ret

\* C14: every bot launched is in a process group of its own that is not the
\* group of the deployer; a stop_bot_process on a pid of the registry never
\* signals the deployer, and it signals every process still in the group of
\* the bot (judged only where the host let both calls through).
C14_GroupSignalsReachChildren ==
    groups.on =>
      LET table == groups.table
          s == Supervisor(table)
      IN /\ \A p \in InTable(table) :
              (table[p].role = "child" /\ ~table[p].zombie) =>
                 (table[p].pg = p /\ table[p].pg # table[s].pg)
         /\ \A g \in groups.got :
              /\ s \notin g.hit
              /\ g.let => g.missed = {}

\* C15: no two operations that change the registry interleave: while one
\* is between its first change of the registry and the end of its save, no
\* other one changes the registry or writes the file, and the pip run of a
\* deploy is never inside that section.
C15_NoInterleaving ==
    loop.on =>
      /\ ~loop.clash
      /\ ~loop.pipInside
      /\ Cardinality(loop.inside) <= 1

C15_Witness ==
    /\ loop.on
    /\ \E t \in loop.inside, u \in TaskIds :
         /\ t # u /\ t # BootId
         /\ loop.tasks[u].op = "finalize" /\ loop.tasks[u].pos > 2
         /\ Program("finalize")[loop.tasks[u].pos - 1] = "await"
         /\ Program("finalize")[loop.tasks[u].pos - 2] = "pip"

\* C16 as claimed: a reconciliation pass that ran to its end has written the
\* registry to the file, and the deployer serves.
C16_BootSavesOnce ==
    [][(last'.op = "auto_restart" /\ last'.done)
          => (pc' = "serving" /\ db' = save_bots(bots'))]_vars

\* C16, amended: the reconciliation pass runs only as the first step after a
\* start of the deployer and not again before the next start; when it ran
\* to its end over a registry that has bots it has written the registry,
\* as it is after the last record, to the file, otherwise it has written
\* nothing; no request of the operator is handled before the pass is over.
C16_BootOnceThenServe ==
    [][/\ last'.op = "auto_restart" =>
            /\ pc = "boot" /\ pc' # "boot"
            /\ IF last'.done /\ Truthy(bots)
               THEN pc' = "serving" /\ db' = save_bots(bots')
               ELSE db' = db
       /\ pc = "boot" => last'.op \in {"auto_restart", "env"}
       /\ last'.op \in OperatorOps => pc = "serving"]_vars

C16_Witness ==
    /\ pc = "serving" /\ last.op = "auto_restart" /\ last.done
    /\ IsDict(bots) /\ Keys(bots) # {}
    /\ \E n \in Keys(bots) : last.res[n].st = "ok"
    /\ \E n \in Names : last.res[n].st = "missing"
    /\ db = save_bots(bots)

\* C17: the operator has a session only from a deploy intent to the end of
\* the deploy it leads to: a session appears with a deploy intent only,
\* after finalize_deploy the operator has none whatever the outcome, and
\* without a session no document or text is taken for an upload or starts a
\* deploy: it launches nothing and leaves the registry and the file alone.
C17_SessionEndsWithDeploy ==
    [][/\ last'.op = "finalize" => last'.user \notin DOMAIN user_state'
       /\ \A u \in Users :
            (u \in DOMAIN user_state' /\ u \notin DOMAIN user_state)
               => (last'.op = "deploy" /\ last'.user = u)
       /\ (last'.op \in OperatorOps /\ last'.user \notin DOMAIN user_state)
            => /\ last'.op \notin {"upload", "finalize"}
               /\ last'.op = "request" =>
                    (Started(last') = {} /\ UNCHANGED <<bots, db, live>>)]_vars

C17_Witness ==
    /\ last.op = "finalize" /\ last.user \notin DOMAIN user_state
    /\ \E n \in Names : last.res[n].st = "failed"
    /\ IsDict(bots) /\ Keys(bots) # {}

\* C18: a request (button, document or text) of a user who is not the
\* operator has no effect: the registry in memory and on disk, the upload
\* sessions and the running children are after it what they were before.
\* As the step leaves every variable the later steps depend on unchanged, a
\* run and the run without the requests of such users reach the same
\* registry and processes.
C18_StrangersChangeNothing ==
    [][(last'.user # ADMIN_ID /\ last'.op \in OperatorOps)
          => UNCHANGED <<bots, db, user_state, live, pc, hist>>]_vars

C18_Witness ==
    /\ last.user # ADMIN_ID /\ last.op \in OperatorOps
    /\ Len(last.replies) = 1
    /\ IsDict(bots) /\ Keys(bots) # {}
    /\ ADMIN_ID \in DOMAIN user_state
    /\ live # {}

\* C19: a child the deployer started in its current run and that still runs
\* is the one recorded for its bot: when a deploy or a restart_all launches
\* a bot that the step before had launched, the child of the step before
\* runs no more.
C19_OneChildPerName ==
    [][\A n \in Names :
          (/\ last'.op \in {"finalize", "restart_all"}
           /\ last.op \in {"finalize", "restart_all", "auto_restart"}
           /\ last.res[n].st = "ok" /\ last'.res[n].st = "ok")
             => last.res[n].pid \notin live']_vars

\* C20: restart_all relaunches every bot whose file is there whatever the
\* launches of the others do, then writes the registry and reports the
\* count; it adds and removes no name and leaves a bot whose file is
\* missing as it was.
C20_RestartAllIndependent ==
    [][(last'.op = "restart_all" /\ IsRegistry(bots)) =>
          /\ IsRegistry(bots') /\ Keys(bots') = Keys(bots)
          /\ \A n \in Keys(bots) : last'.res[n].st # "none"
          /\ \A n \in Keys(bots) :
               last'.res[n].st = "ok" => Get(bots', n).pid = last'.res[n].pid
          /\ \A n \in Keys(bots) :
               last'.res[n].st = "missing" => Get(bots', n) = Get(bots, n)
          /\ db' = save_bots(bots')
          /\ last'.replies = <<"confirmation">>]_vars

====
